---- MODULE Spec2Model ----
(***************************************************************************)
(* The incremental synchronisation and caching engine of the WaniKani      *)
(* leech-deck generator: the cache store (loadCache, setCache,             *)
(* getOrInitializeCache), the paginated fetcher (getWaniKani,              *)
(* unwrapCollection) and the collection syncs (getReviewStatistics,        *)
(* getAssignments), as they are written in src/src/main.ts and in the      *)
(* later draft src/unnamed/part_000.                                       *)
(*                                                                         *)
(* A JavaScript object is a function whose DOMAIN is the set of its own    *)
(* properties.  The remote API is the environment: it answers every GET    *)
(* with a failure, with 304 or with a page of its own choosing.            *)
(***************************************************************************)
EXTENDS Integers, Sequences, FiniteSets, TLC

VARIABLES
    draft,    \* the program file that runs: "main" or "part_000"
    cache,    \* the in-memory cache object: key -> value
    files,    \* the directory cache/: key -> JSON text of cache/<key>.json
    pc,       \* where the one flow of control waits
    call,     \* the locals of the sync in flight
    last,     \* what the most recent sync call returned (observation)
    prev,     \* the requests and responses of the sync before (observation)
    store,    \* the cache-store calls made directly (observation)
    gets,     \* the calls of getWaniKani looked at step by step
    follow,   \* the next_url unwrapCollection followed last, and the URL asked
    sub       \* the getSubject calls of src/src/main.ts and what they did

vars ==
    <<draft, cache, files, pc, call, last, prev, store, gets, follow, sub>>

----------------------------------------------------------------------------
(* Bounds *)

MaxId == 2
MaxTime == 2
MaxPages == 2
MaxSyncs == 2
MaxCalls == 2

Ids == 1..MaxId
Times == 1..MaxTime

----------------------------------------------------------------------------
(* JavaScript values *)

\* the property is not there: {}.date
NoProp == -2
\* undefined, as in { date: undefined }
Undefined == -1
\* null
Null == 0

DateVals == {NoProp, Undefined, Null} \cup Times

\* if (dateLastUpdated): a timestamp string is truthy, null and undefined are not
Truthy(d) == d \in Times

\* Resource<T>: id and data_updated_at.  For an assignment, id stands for
\* data.subject_id, the only field of it the syncs read.
Rec == [id : Ids, data_updated_at : Times]

\* An object of the cache: a watermark object { date: d } has the property
\* date, a collection object maps record keys to records.
Obj(d, m) == [date |-> d, recs |-> m]
EmptyObj == Obj(NoProp, <<>>)
DateObj(d) == Obj(d, <<>>)
CollObj(m) == Obj(NoProp, m)

\* null held as a value of the cache, whose JSON is "null"
NullEntry == -4
NullValue == Obj(NullEntry, <<>>)

\* obj.date: a missing property reads as undefined
ReadDate(o) == IF o.date = NoProp THEN Undefined ELSE o.date

----------------------------------------------------------------------------
(* JSON *)

\* JSON.stringify: a property whose value is undefined is left out, so
\* { date: undefined } and {} both give "{}".
Stringify(o) ==
    [date |-> IF o.date \in {NoProp, Undefined} THEN NoProp ELSE o.date,
     recs |-> o.recs]

\* JSON.parse of a text Stringify wrote
Parse(j) == Obj(j.date, j.recs)

----------------------------------------------------------------------------
(* Cache Store *)

\* obj[key] = value on an object held as a function
Put(f, k, v) == [x \in (DOMAIN f) \cup {k} |-> IF x = k THEN v ELSE f[x]]

ReviewKeys == [date |-> "reviewStatsDate", coll |-> "reviewStats"]
AssignmentKeys == [date |-> "AssignmentsDate", coll |-> "Assignments"]

\* The cache as a sync finds it when main has not awaited loadCache: no
\* file has been read yet
LoadCacheNotAwaited(f) == <<>>

\* loadCache: every file of cache/ is read and parsed into the cache object
LoadCache(f) == [k \in DOMAIN f |-> Parse(f[k])]

\* setCache: the value is stored and its file written only when its JSON
\* differs from the JSON of (cache[key] || {}).  Result: the cache, the
\* files, and whether writeFile was called.
SetCacheMissingIsEmpty(c, key) ==
    IF key \in DOMAIN c /\ c[key] # NullValue THEN c[key] ELSE EmptyObj

\* A setCache without the comparison: it writes on every call
SetCacheAlways(c, f, key, value) ==
    [cache |-> Put(c, key, value), files |-> Put(f, key, Stringify(value)),
     wrote |-> TRUE]

SetCache(c, f, key, value) ==
    LET oldJSON == Stringify(SetCacheMissingIsEmpty(c, key))
        newJSON == Stringify(value)
    IN  IF oldJSON # newJSON
        THEN [cache |-> Put(c, key, value), files |-> Put(f, key, newJSON),
              wrote |-> TRUE]
        ELSE [cache |-> c, files |-> f, wrote |-> FALSE]

\* getOrInitializeCache: the cached object itself when the key is there;
\* otherwise the initial value, after setCache(key, initialValue).  stored
\* says whether the object returned is the one the cache holds.
GetOrInitializeCache(c, f, key, initialValue) ==
    IF key \in DOMAIN c
    THEN [cache |-> c, files |-> f, value |-> c[key], stored |-> TRUE,
          wrote |-> FALSE, invoked |-> FALSE]
    ELSE LET s == SetCache(c, f, key, initialValue)
         IN  [cache |-> s.cache, files |-> s.files, value |-> initialValue,
              stored |-> s.wrote, wrote |-> s.wrote, invoked |-> TRUE]

----------------------------------------------------------------------------
(* Helpers on arrays and objects *)

Range(s) == {s[i] : i \in 1..Len(s)}

Min(S) == CHOOSE x \in S : \A y \in S : x <= y

\* Object.keys of an object with integer keys: ascending
RECURSIVE ObjectKeys(_)
ObjectKeys(S) ==
    IF S = {} THEN <<>> ELSE <<Min(S)>> \o ObjectKeys(S \ {Min(S)})

\* [...new Set(array)]: the first occurrence of each element, in order
RECURSIVE Dedup(_)
Dedup(s) ==
    IF s = <<>> THEN <<>>
    ELSE LET front == Dedup(SubSeq(s, 1, Len(s) - 1))
             x == s[Len(s)]
         IN  IF x \in Range(front) THEN front ELSE Append(front, x)

\* array.filter(x => keep.includes(x)) on an array of ids
RECURSIVE FilterIncluded(_, _)
FilterIncluded(s, keep) ==
    IF s = <<>> THEN <<>>
    ELSE (IF Head(s) \in keep THEN <<Head(s)>> ELSE <<>>)
         \o FilterIncluded(Tail(s), keep)

\* records.forEach(r => { old[r.id] = r }): a later record of the array
\* overwrites an earlier one with the same key
RECURSIVE Merge(_, _)
Merge(m, records) ==
    IF records = <<>> THEN m
    ELSE Merge(Put(m, Head(records).id, Head(records)), Tail(records))

----------------------------------------------------------------------------
(* Requests and responses *)

\* A GET of getWaniKani(path, params, ifModifiedSince).  path is the
\* resource asked for, or "" with link the next_url followed; updated_after
\* is NoProp when params has none; has_subject_ids says whether params has
\* subject_ids; ifModifiedSince is Undefined when no header is set.
Request(path, link, updated_after, has_subject_ids, subject_ids, ifModifiedSince) ==
    [path |-> path, link |-> link, updated_after |-> updated_after,
     has_subject_ids |-> has_subject_ids, subject_ids |-> subject_ids,
     ifModifiedSince |-> ifModifiedSince]

NoRequest == Request("", Null, NoProp, FALSE, <<>>, Undefined)

\* headers['If-Modified-Since'] is set when ifModifiedSince !== undefined
Conditional(req) == req.ifModifiedSince # Undefined

\* the records one page carries
MaxPerPage == 1

PageData == UNION {[1..n -> Rec] : n \in 0..MaxPerPage}

\* A Collection<T> as the remote sends it: next_url is Null on the last
\* page and otherwise the number of the page it links to, which stands
\* for a URL of that page under WaniKaniURL.
PagesAfter(n) ==
    [data : PageData, data_updated_at : Times,
     next_url : IF n < MaxPages THEN {Null, n + 1} ELSE {Null}]

\* An unwrapCollection whose loop goes on after a page without next_url
NextUrlNeverNull(p) == FALSE

\* `while (currentPage.pages.next_url != null)`: the loop is not entered,
\* or is left, at a page without next_url
NextUrlIsNull(p) == p.next_url = Null

\* An unwrapCollection that passes its pages' link on as ifModifiedSince
PageRequestConditional(next_url) ==
    Request("", next_url, NoProp, FALSE, <<>>, next_url)

\* unwrapCollection asks for next_url with the base URL taken off and with
\* no params and no ifModifiedSince
PageRequest(next_url) == Request("", next_url, NoProp, FALSE, <<>>, Undefined)

----------------------------------------------------------------------------
(* The sync in flight *)

\* The locals of a sync, and what is observed of it: the cache and the
\* files as the call found them, the records it was given, the requests it
\* made, and at the end its outcome and the value it returned.
NoCall ==
    [op |-> "none", keys |-> ReviewKeys, subjectIds |-> <<>>,
     getAllAssignments |-> FALSE, storedDate |-> Undefined,
     dateLastUpdated |-> Undefined, oldBefore |-> <<>>, old |-> EmptyObj,
     aliased |-> FALSE, req |-> NoRequest, firstReq |-> NoRequest,
     pageOneDate |-> Undefined, result |-> <<>>, chain |-> <<>>,
     reqs |-> 0, preCache |-> <<>>,
     preFiles |-> <<>>, outcome |-> "none", pages |-> FALSE, ret |-> <<>>,
     written |-> {}, asBefore |-> FALSE]

NoLast == [op |-> "none", outcome |-> "none", n |-> 0]

NoPrev == [op |-> "none", req |-> NoRequest, chain |-> <<>>,
           date |-> Undefined, ok |-> FALSE]

\* The two getOrInitializeCache calls every sync starts with, and
\* `if (dateLastUpdated) dateLastUpdated = dateLastUpdated.date`
ReadEntries(keys) ==
    LET d == GetOrInitializeCache(cache, files, keys.date, DateObj(Undefined))
        o == GetOrInitializeCache(d.cache, d.files, keys.coll, EmptyObj)
    IN  [cache |-> o.cache, files |-> o.files,
         dateLastUpdated |-> ReadDate(d.value),
         old |-> o.value, aliased |-> o.stored,
         written |-> (IF d.wrote THEN {keys.date} ELSE {})
                     \cup (IF o.wrote THEN {keys.coll} ELSE {})]

\* The sync has read its entries and asks getWaniKani for the first page
Begin(op, keys, subjectIds, getAll, e, date, req) ==
    /\ cache' = e.cache
    /\ files' = e.files
    /\ pc' = "first"
    /\ call' = [NoCall EXCEPT !.op = op, !.keys = keys,
                   !.subjectIds = subjectIds, !.getAllAssignments = getAll,
                   !.storedDate = e.dateLastUpdated,
                   !.dateLastUpdated = date, !.oldBefore = e.old.recs,
                   !.old = e.old, !.aliased = e.aliased, !.req = req,
                   !.firstReq = req, !.reqs = 1, !.preCache = cache,
                   !.preFiles = files, !.written = e.written,
                   !.asBefore = (prev.ok /\ prev.op = op)]
    /\ UNCHANGED <<draft, last, prev, store, gets, follow, sub>>

\* A main that calls a sync without awaiting the one it called before
MainAtCallNotAwaiting == pc \in {"idle", "first", "page", "done"}

\* main awaits every sync it calls: it is at the call of a sync only when
\* the sync before has returned
MainAtCall ==
    /\ pc = "idle"
    /\ \A i \in DOMAIN sub.calls : sub.calls[i].pc \in {"none", "resolved"}

\* A getReviewStatistics that passes no ifModifiedSince to getWaniKani
ReviewStatisticsRequestNoHeader(d) ==
    Request("review_statistics", Null, IF Truthy(d) THEN d ELSE NoProp, FALSE,
            <<>>, Undefined)

\* The request of getReviewStatistics: { updated_after } and the
\* conditional header when the date is truthy, {} otherwise
ReviewStatisticsRequest(d) ==
    IF Truthy(d)
    THEN Request("review_statistics", Null, d, FALSE, <<>>, d)
    ELSE Request("review_statistics", Null, NoProp, FALSE, <<>>, Undefined)

\* getReviewStatistics up to its first await of getWaniKani
GetReviewStatistics ==
    /\ MainAtCall
    /\ draft = "main"
    /\ last.n < MaxSyncs
    /\ LET e == ReadEntries(ReviewKeys)
           d == e.dateLastUpdated
       IN  Begin("getReviewStatistics", ReviewKeys, <<>>, FALSE, e, d,
                 ReviewStatisticsRequest(d))

\* subjectIds.every(id => oldAssignments.hasOwnProperty(id))
EveryIdCached(subjectIds, old) ==
    \A id \in Range(subjectIds) : id \in DOMAIN old.recs

\* A getAssignments that asks for the ids it was given only
AllSubjectIdsGivenOnly(subjectIds, old) == subjectIds

\* [...new Set(subjectIds.concat(
\*     Object.keys(oldAssignments).map(key => parseInt(key))))]
AllSubjectIds(subjectIds, old) ==
    Dedup(subjectIds \o ObjectKeys(DOMAIN old.recs))

\* the arrays of subject ids a caller passes: ascending, no id twice
SubjectIdLists == {ObjectKeys(S) : S \in SUBSET Ids}

\* A getAssignments without `if (subjectIds.length == 0) { return [] }`
ReturnEmptyFetching(op, subjectIds) ==
    LET e == ReadEntries(AssignmentKeys)
    IN  Begin(op, AssignmentKeys, subjectIds, FALSE, e, e.dateLastUpdated,
              Request("assignments", Null, NoProp, FALSE, <<>>, Undefined))

\* A sync that returns before it reads anything: `return []`
ReturnEmpty(op, subjectIds) ==
    /\ pc' = "done"
    /\ call' = [NoCall EXCEPT !.op = op, !.keys = AssignmentKeys,
                   !.subjectIds = subjectIds, !.preCache = cache,
                   !.preFiles = files, !.outcome = "ok"]
    /\ UNCHANGED <<draft, cache, files, last, prev, store, gets, follow, sub>>

\* A getAssignments that sends updated_after whatever the date is
AssignmentsRequestAlwaysDelta(d, all) ==
    Request("assignments", Null, d, TRUE, all, Undefined)

\* The request of getAssignments of src/src/main.ts: a delta with the
\* conditional header when the date is truthy, a full fetch otherwise
AssignmentsRequest(d, all) ==
    IF Truthy(d)
    THEN Request("assignments", Null, d, TRUE, all, d)
    ELSE Request("assignments", Null, NoProp, TRUE, all, Undefined)

\* A getAssignments without the completeness check
CompletenessCheckSkipped(subjectIds, old, dateLastUpdated) == dateLastUpdated

\* `if (!subjectIds.every(...)) dateLastUpdated = null`
CompletenessCheck(subjectIds, old, dateLastUpdated) ==
    IF EveryIdCached(subjectIds, old) THEN dateLastUpdated ELSE Null

\* getAssignments of src/src/main.ts up to its first await of getWaniKani
GetAssignments(subjectIds) ==
    /\ MainAtCall
    /\ draft = "main"
    /\ last.n < MaxSyncs
    /\ IF Len(subjectIds) = 0
       THEN ReturnEmpty("getAssignments", subjectIds)
       ELSE LET e == ReadEntries(AssignmentKeys)
                d == CompletenessCheck(subjectIds, e.old, e.dateLastUpdated)
            IN  Begin("getAssignments", AssignmentKeys, subjectIds, FALSE, e, d,
                      AssignmentsRequest(d, AllSubjectIds(subjectIds, e.old)))

\* The request of getAssignments of src/unnamed/part_000: requestArgs has
\* updated_after when the date is truthy; no ifModifiedSince is passed
AssignmentsRequest000(d) ==
    Request("assignments", Null, IF Truthy(d) THEN d ELSE NoProp, FALSE, <<>>,
            Undefined)

\* getAssignments of src/unnamed/part_000 up to its await of getWaniKani
GetAssignments000(subjectIds, getAllAssignments) ==
    /\ MainAtCall
    /\ draft = "part_000"
    /\ last.n < MaxSyncs
    /\ IF ~getAllAssignments /\ Len(subjectIds) = 0
       THEN ReturnEmpty("getAssignments", subjectIds)
       ELSE LET e == ReadEntries(AssignmentKeys)
            IN  Begin("getAssignments", AssignmentKeys, subjectIds,
                      getAllAssignments, e, e.dateLastUpdated,
                      AssignmentsRequest000(e.dateLastUpdated))

\* A getSubject and getSubjects that keep every subject under the key of
\* the assignments
SubjectKeyShared(id) == AssignmentKeys.coll

\* `subject-${id}`
SubjectKeyNames == <<"subject-1", "subject-2", "subject-3", "subject-4">>
SubjectKey(id) == SubjectKeyNames[id]

\* A Resource<Subject> held as a value of the cache
SubjectObj(r) == Obj(NoProp, <<r>>)

\* cache[key] || null, of part_000
GetCacheValueIfSet(c, key) ==
    IF key \in DOMAIN c /\ c[key] # NullValue THEN c[key] ELSE NullValue

\* ids.filter(id => getCacheValueIfSet(`subject-${id}`) == null)
RECURSIVE SubjectIdsNotCached(_, _)
SubjectIdsNotCached(c, ids) ==
    IF ids = <<>> THEN <<>>
    ELSE (IF GetCacheValueIfSet(c, SubjectKey(Head(ids))) = NullValue
          THEN <<Head(ids)>> ELSE <<>>)
         \o SubjectIdsNotCached(c, Tail(ids))

\* ids.map(id => getCacheValueIfSet(`subject-${id}`))
SubjectsOf(c, ids) ==
    [i \in 1..Len(ids) |-> GetCacheValueIfSet(c, SubjectKey(ids[i]))]

\* `for (const subject of newSubjects) await setCache(...)`: the cache, the
\* files and the keys written after the loop
RECURSIVE SetCacheEach(_, _, _, _)
SetCacheEach(c, f, written, subjects) ==
    IF subjects = <<>> THEN [cache |-> c, files |-> f, written |-> written]
    ELSE LET key == SubjectKey(Head(subjects).id)
             s == SetCache(c, f, key, SubjectObj(Head(subjects)))
         IN  SetCacheEach(s.cache, s.files,
                          written \cup (IF s.wrote THEN {key} ELSE {}),
                          Tail(subjects))

\* The arrays of ids a caller passes to getSubjects: in any order, an id
\* may come twice
SubjectIdArrays == UNION {[1..n -> Ids] : n \in 0..MaxId}

\* getWaniKani('subjects', { ids: subjectIdsNotCached.join(',') })
SubjectsRequestOfAll(ids, notCached) ==
    Request("subjects", Null, NoProp, TRUE, ids, Undefined)

SubjectsRequest(ids, notCached) ==
    Request("subjects", Null, NoProp, TRUE, notCached, Undefined)

\* getSubjects of src/unnamed/part_000 up to its await of getWaniKani, or
\* to its return when every id is cached
GetSubjects(ids) ==
    /\ MainAtCall
    /\ draft = "part_000"
    /\ last.n < MaxSyncs
    /\ LET notCached == SubjectIdsNotCached(cache, ids)
           c == [NoCall EXCEPT !.op = "getSubjects", !.subjectIds = ids,
                    !.preCache = cache, !.preFiles = files]
       IN  IF Len(notCached) > 0
           THEN /\ pc' = "first"
                /\ call' = [c EXCEPT !.req = SubjectsRequest(ids, notCached),
                               !.firstReq = SubjectsRequest(ids, notCached),
                               !.reqs = 1]
           ELSE /\ pc' = "done"
                /\ call' = [c EXCEPT !.outcome = "ok",
                               !.ret = SubjectsOf(cache, ids)]
    /\ UNCHANGED <<draft, cache, files, last, prev, store, gets, follow, sub>>

----------------------------------------------------------------------------
(* The end of a sync *)

\* A sync that returns every record of the merged collection
ReturnedUnfiltered(c, recs) ==
    LET keys == ObjectKeys(DOMAIN recs)
    IN  [i \in 1..Len(keys) |-> recs[keys[i]]]

\* Object.values(old), or for getAssignments the records of the keys that
\* subjectIds includes (of every key with getAllAssignments)
Returned(c, recs) ==
    LET keys == ObjectKeys(DOMAIN recs)
        returnKeys == IF c.op = "getReviewStatistics" \/ c.getAllAssignments
                      THEN keys
                      ELSE FilterIncluded(keys, Range(c.subjectIds))
    IN  [i \in 1..Len(returnKeys) |-> recs[returnKeys[i]]]

\* A merge that adds the records of new ids and keeps the old record of
\* an id it already has
MergeInPlaceKeepingOld(c, old, aliased, key, records) ==
    LET new == Merge(<<>>, records)
        recs == [id \in (DOMAIN new) \cup (DOMAIN old.recs) |->
                    IF id \in DOMAIN old.recs THEN old.recs[id] ELSE new[id]]
        merged == [old EXCEPT !.recs = recs]
    IN  [old |-> merged,
         cache |-> IF aliased THEN Put(c, key, merged) ELSE c]

\* A merge that keeps only the records the sync was given
MergeInPlaceReplacing(c, old, aliased, key, records) ==
    LET merged == [old EXCEPT !.recs = Merge(<<>>, records)]
    IN  [old |-> merged,
         cache |-> IF aliased THEN Put(c, key, merged) ELSE c]

\* The forEach that merges the records into the old object, which is the
\* cached object itself when getOrInitializeCache found the key
MergeInPlace(c, old, aliased, key, records) ==
    LET merged == [old EXCEPT !.recs = Merge(old.recs, records)]
    IN  [old |-> merged,
         cache |-> IF aliased THEN Put(c, key, merged) ELSE c]

\* A sync that forgets its date when the remote answers "unchanged"
AdoptedDateCleared(pages, pageOneDate, dateLastUpdated) ==
    IF pages THEN pageOneDate ELSE Null

\* A sync that never adopts data_updated_at of page one
AdoptedDateKept(pages, pageOneDate, dateLastUpdated) == dateLastUpdated

\* The date the sync stores: data_updated_at of page one when pages came,
\* the date it started with otherwise
AdoptedDate(pages, pageOneDate, dateLastUpdated) ==
    IF pages THEN pageOneDate ELSE dateLastUpdated

\* A sync that takes data_updated_at from the page it fetched last
DateOfLastPage(chain) == chain[Len(chain)].data_updated_at

\* `dateLastUpdated = newReviewCollection.data_updated_at`: the collection
\* is the response to the first request, which unwrapCollection leaves as
\* it is
DateOfPageOne(chain) == chain[1].data_updated_at

\* From the response that ends the fetch to the return: the merge (when a
\* page set came), setCache of the date, setCache of the collection.
FinishSync(records, pages, pageOneDate, chain, asBefore) ==
    LET k == call.keys
        newDate == AdoptedDate(pages,
                               IF pages THEN DateOfPageOne(chain)
                               ELSE pageOneDate,
                               call.dateLastUpdated)
        m == IF pages
             THEN MergeInPlace(cache, call.old, call.aliased, k.coll, records)
             ELSE [old |-> call.old, cache |-> cache]
        s1 == SetCache(m.cache, files, k.date, DateObj(newDate))
        s2 == SetCache(s1.cache, s1.files, k.coll, m.old)
    IN  /\ cache' = s2.cache
        /\ files' = s2.files
        /\ pc' = "done"
        /\ call' = [call EXCEPT !.outcome = "ok", !.pages = pages,
                       !.pageOneDate = pageOneDate,
                       !.dateLastUpdated = newDate, !.old = m.old,
                       !.result = records, !.chain = chain,
                       !.req = NoRequest,
                       !.ret = Returned(call, m.old.recs),
                       !.written = call.written
                            \cup (IF s1.wrote THEN {k.date} ELSE {})
                            \cup (IF s2.wrote THEN {k.coll} ELSE {}),
                       !.asBefore = asBefore]
        /\ UNCHANGED <<draft, last, prev, store, gets, follow, sub>>

\* getSubjects from the return of unwrapCollection to its own return
FinishSubjects(records, chain) ==
    LET s == SetCacheEach(cache, files, {}, records)
    IN  /\ cache' = s.cache
        /\ files' = s.files
        /\ pc' = "done"
        /\ call' = [call EXCEPT !.outcome = "ok", !.pages = TRUE,
                       !.result = records, !.chain = chain,
                       !.req = NoRequest,
                       !.ret = SubjectsOf(s.cache, call.subjectIds),
                       !.written = s.written, !.asBefore = FALSE]
        /\ UNCHANGED <<draft, last, prev, store, gets, follow, sub>>

\* unwrapCollection has returned to the function that called it
FinishFetch(records, pages, pageOneDate, chain, asBefore) ==
    IF call.op = "getSubjects"
    THEN FinishSubjects(records, chain)
    ELSE FinishSync(records, pages, pageOneDate, chain, asBefore)

\* A sync that merges the records it has when a request fails
RejectSyncKeepingPages ==
    /\ pc' = "done"
    /\ call' = [call EXCEPT !.outcome = "rejected", !.req = NoRequest,
                   !.asBefore = FALSE]
    /\ cache' = MergeInPlace(cache, call.old, call.aliased, call.keys.coll,
                             call.result).cache
    /\ UNCHANGED <<draft, files, last, prev, store, gets, follow, sub>>

\* A sync that asks again when a request fails
RejectSyncRetrying ==
    /\ call' = [call EXCEPT !.reqs = call.reqs + 1]
    /\ UNCHANGED <<draft, cache, files, pc, last, prev, store, gets, follow, sub>>

\* A getSubjects that stores the subjects of the pages it has when a
\* request fails
RejectSyncStoringSubjects ==
    LET s == SetCacheEach(cache, files, {}, call.result)
    IN  /\ pc' = "done"
        /\ call' = [call EXCEPT !.outcome = "rejected", !.req = NoRequest,
                       !.written = s.written, !.asBefore = FALSE]
        /\ cache' = s.cache
        /\ files' = s.files
        /\ UNCHANGED <<draft, last, prev, store, gets, follow, sub>>

\* getWaniKani rejected: the await throws and the sync rejects
RejectSync ==
    /\ pc' = "done"
    /\ call' = [call EXCEPT !.outcome = "rejected", !.req = NoRequest,
                   !.asBefore = FALSE]
    /\ UNCHANGED <<draft, cache, files, last, prev, store, gets, follow, sub>>

\* main awaits every sync outside any try: a sync that rejects rejects
\* main, whose remaining statements do not run
AfterSync(outcome) == IF outcome = "rejected" THEN "aborted" ELSE "idle"

\* The caller, main, has the result (or the rejection) of the sync
Return ==
    /\ pc = "done"
    /\ pc' = AfterSync(call.outcome)
    /\ last' = [op |-> call.op, outcome |-> call.outcome, n |-> last.n + 1]
    /\ prev' = IF call.outcome = "ok" /\ call.reqs > 0
                  /\ call.op # "getSubjects"
               THEN [op |-> call.op, req |-> call.firstReq,
                     chain |-> call.chain,
                     date |-> call.pageOneDate,
                     ok |-> TRUE]
               ELSE NoPrev
    /\ call' = NoCall
    /\ UNCHANGED <<draft, cache, files, store, gets, follow, sub>>

----------------------------------------------------------------------------
(* The responses of getWaniKani *)

\* A page as it was served
Served(p) ==
    [data |-> p.data, data_updated_at |-> p.data_updated_at,
     next_url |-> p.next_url]

\* An identical request to a remote that has not changed gets the answer
\* it got in the sync before; i is the place of the request in the sync.
SameFirstRequest == call.firstReq = prev.req
SamePage(i, p) == Len(prev.chain) >= i /\ prev.chain[i] = Served(p)

\* The first request failed
FirstRejected ==
    /\ pc = "first"
    /\ RejectSync

\* The first request was answered 304: getWaniKani resolved null
FirstUnchanged ==
    /\ pc = "first"
    /\ IF call.op = "getSubjects"
       THEN RejectSync
       ELSE FinishSync(<<>>, FALSE, Undefined, <<>>,
                       call.asBefore
                           /\ (\/ Conditional(call.firstReq)
                               \/ SameFirstRequest /\ prev.chain = <<>>))

\* The first request was answered with page one; unwrapCollection starts
\* and either returns at once or awaits the next page
FirstPage ==
    /\ pc = "first"
    /\ \E p \in PagesAfter(1) :
          LET asBefore == /\ call.asBefore
                          /\ ~Conditional(call.firstReq)
                          /\ SameFirstRequest
                          /\ SamePage(1, p)
                          /\ prev.date = p.data_updated_at
          IN  IF NextUrlIsNull(p)
              THEN FinishFetch(p.data, TRUE, p.data_updated_at,
                               <<Served(p)>>, asBefore)
              ELSE /\ pc' = "page"
                   /\ call' = [call EXCEPT !.result = p.data,
                                  !.pageOneDate = p.data_updated_at,
                                  !.req = PageRequest(p.next_url),
                                  !.reqs = call.reqs + 1,
                                  !.chain = <<Served(p)>>,
                                  !.asBefore = asBefore]
                   /\ UNCHANGED <<draft, cache, files, last, prev, store, gets, follow, sub>>

\* A page request of unwrapCollection failed
NextRejected ==
    /\ pc = "page"
    /\ RejectSync

\* A page request was answered 304: the loop breaks
NextUnchanged ==
    /\ pc = "page"
    /\ FinishFetch(call.result, TRUE, call.pageOneDate, call.chain,
                   call.asBefore /\ Len(prev.chain) = Len(call.chain))

\* An unwrapCollection that keeps only the page it fetched last
ConcatDropping(result, data) == data

\* result = result.concat(nextPage.data)
Concat(result, data) == result \o data

\* A page request was answered with the next page
NextPage ==
    /\ pc = "page"
    /\ \E p \in PagesAfter(call.req.link) :
          LET result == Concat(call.result, p.data)
              chain == Append(call.chain, Served(p))
              asBefore == call.asBefore /\ SamePage(Len(chain), p)
          IN  IF NextUrlIsNull(p)
              THEN FinishFetch(result, TRUE, call.pageOneDate, chain,
                               asBefore)
              ELSE /\ call' = [call EXCEPT !.result = result,
                                  !.req = PageRequest(p.next_url),
                                  !.reqs = call.reqs + 1,
                                  !.chain = chain,
                                  !.asBefore = asBefore]
                   /\ UNCHANGED <<draft, cache, files, pc, last, prev, store, gets, follow, sub>>

\* The process ends between the two setCache calls that end a sync: the
\* page that ends the fetch came, the records were merged and the file of
\* the date was written; the file of the collection was not.
CrashBetweenSetCaches ==
    /\ pc \in {"first", "page"}
    /\ \E p \in PagesAfter(IF pc = "first" THEN 1 ELSE call.req.link) :
          /\ NextUrlIsNull(p)
          /\ LET k == call.keys
                 records == IF pc = "first" THEN p.data
                            ELSE Concat(call.result, p.data)
                 pageOneDate == IF pc = "first" THEN p.data_updated_at
                                ELSE call.pageOneDate
                 newDate == AdoptedDate(TRUE, pageOneDate, call.dateLastUpdated)
                 m == MergeInPlace(cache, call.old, call.aliased, k.coll,
                                   records)
                 s1 == SetCache(m.cache, files, k.date, DateObj(newDate))
             IN  /\ cache' = s1.cache
                 /\ files' = s1.files
                 /\ call' = [call EXCEPT !.outcome = "crashed",
                                !.pages = TRUE, !.pageOneDate = pageOneDate,
                                !.dateLastUpdated = newDate, !.old = m.old,
                                !.result = records, !.req = NoRequest,
                                !.written = call.written
                                    \cup (IF s1.wrote THEN {k.date} ELSE {}),
                                !.asBefore = FALSE]
    /\ pc' = "crashed"
    /\ last' = [op |-> call.op, outcome |-> "crashed", n |-> last.n + 1]
    /\ UNCHANGED <<draft, prev, store, gets, follow, sub>>

----------------------------------------------------------------------------
(* getWaniKani step by step *)

Calls == 1..MaxCalls

\* response.status: the status the code tests for, and any other status
\* axios resolves with
NotModified == 304
Ok == 200
Statuses == {Ok, NotModified}

\* What the promise of getWaniKani resolved with: null, or response.data
Resolved(isNull, data) == [isNull |-> isNull, data |-> data]

\* A call of getWaniKani: where it is, its ifModifiedSince argument, the
\* If-Modified-Since header it sent, whether its removeTokens callback
\* has run, the status of the response and the value it resolved with
NoGet ==
    [pc |-> "none", ifModifiedSince |-> Undefined, header |-> NoProp,
     token |-> FALSE, status |-> Null, result |-> Resolved(FALSE, <<>>)]

\* The calls, the tokens the limiter has handed to callbacks and the GETs
\* handed to axios
NoGets == [calls |-> [i \in Calls |-> NoGet], tokens |-> 0, started |-> 0]

\* A getWaniKani that calls axios.get without waiting for the limiter
CallGetWaniKaniUnlimited(i, ifModifiedSince) ==
    /\ gets.calls[i].pc = "none"
    /\ gets' = [gets EXCEPT !.calls[i].pc = "get",
                   !.calls[i].ifModifiedSince = ifModifiedSince,
                   !.started = gets.started + 1]
    /\ UNCHANGED <<draft, cache, files, pc, call, last, prev, store, follow, sub>>

\* getWaniKani(path, params, ifModifiedSince) up to limiter.removeTokens(1,
\* callback): the promise is created and the callback is handed over
CallGetWaniKani(i, ifModifiedSince) ==
    /\ gets.calls[i].pc = "none"
    /\ gets' = [gets EXCEPT !.calls[i].pc = "removeTokens",
                   !.calls[i].ifModifiedSince = ifModifiedSince]
    /\ UNCHANGED <<draft, cache, files, pc, call, last, prev, store, follow, sub>>

\* `if (ifModifiedSince !== undefined) headers['If-Modified-Since'] = ...`
Header(ifModifiedSince) ==
    IF ifModifiedSince # Undefined THEN ifModifiedSince ELSE NoProp

\* The limiter runs the callback of a call: the token is removed, the
\* headers are built and axios.get is called
RemoveTokensCallback(i) ==
    /\ gets.calls[i].pc = "removeTokens"
    /\ gets' = [gets EXCEPT !.calls[i].pc = "get",
                   !.calls[i].token = TRUE,
                   !.calls[i].header = Header(gets.calls[i].ifModifiedSince),
                   !.tokens = gets.tokens + 1,
                   !.started = gets.started + 1]
    /\ UNCHANGED <<draft, cache, files, pc, call, last, prev, store, follow, sub>>

\* A then-handler that resolves with response.data whatever the status
ResolutionOfData(status, data) == Resolved(FALSE, data)

\* `if (response.status == 304) resolve(null) else resolve(response.data)`
Resolution(status, data) ==
    IF status = NotModified THEN Resolved(TRUE, <<>>) ELSE Resolved(FALSE, data)

\* The body of a response: none with 304; otherwise a page, empty or with
\* a record
Bodies(status) ==
    IF status = NotModified THEN {<<>>} ELSE {<<>>} \cup {<<r>> : r \in Rec}

\* axios.get resolved with a response: the then-handler runs
AxiosResolves(i) ==
    /\ gets.calls[i].pc = "get"
    /\ \E status \in Statuses : \E data \in Bodies(status) :
          gets' = [gets EXCEPT !.calls[i].pc = "resolved",
                      !.calls[i].status = status,
                      !.calls[i].result = Resolution(status, data)]
    /\ UNCHANGED <<draft, cache, files, pc, call, last, prev, store, follow, sub>>

\* axios.get rejected: `.catch(err => reject(err))`
AxiosRejects(i) ==
    /\ gets.calls[i].pc = "get"
    /\ gets' = [gets EXCEPT !.calls[i].pc = "rejected"]
    /\ UNCHANGED <<draft, cache, files, pc, call, last, prev, store, follow, sub>>

NextFetch ==
    \E i \in Calls :
        \/ \E ifModifiedSince \in {Undefined} \cup Times :
              CallGetWaniKani(i, ifModifiedSince)
        \/ RemoveTokensCallback(i)
        \/ AxiosResolves(i)
        \/ AxiosRejects(i)

----------------------------------------------------------------------------
(* The URL of a page request *)

\* Strings are sequences of pieces: the scheme and host of the API, the
\* version segment, and any other piece of a URL
Pieces == {"https://api.wanikani.com/", "v2/", "x"}

\* const WaniKaniURL = 'https://api.wanikani.com/v2/'
WaniKaniURL == <<"https://api.wanikani.com/", "v2/">>

MaxUrlLen == 4

\* The strings a remote may put in pages.next_url
NextUrls == UNION {[1..n -> Pieces] : n \in 1..MaxUrlLen}

StartsWith(s, pattern) ==
    Len(s) >= Len(pattern) /\ SubSeq(s, 1, Len(pattern)) = pattern

\* s.replace(pattern, ''): the first occurrence of pattern is taken out;
\* s is returned as it is when pattern does not occur
RECURSIVE Replace(_, _)
Replace(s, pattern) ==
    IF Len(s) < Len(pattern) THEN s
    ELSE IF StartsWith(s, pattern)
         THEN SubSeq(s, Len(pattern) + 1, Len(s))
         ELSE <<Head(s)>> \o Replace(Tail(s), pattern)

\* `${WaniKaniURL}${path}` with params {}: nothing is added to the query
GetUrl(path) == WaniKaniURL \o path

NoFollow == [called |-> FALSE, next_url |-> <<>>, requestPath |-> <<>>,
             url |-> <<>>]

\* One turn of the loop of unwrapCollection up to axios.get:
\* requestPath = next_url.replace(WaniKaniURL, ''), getWaniKani(requestPath, {})
FollowNextUrl(next_url) ==
    /\ follow' = [called |-> TRUE, next_url |-> next_url,
                  requestPath |-> Replace(next_url, WaniKaniURL),
                  url |-> GetUrl(Replace(next_url, WaniKaniURL))]
    /\ UNCHANGED <<draft, cache, files, pc, call, last, prev, store, gets, sub>>

NextFollow == \E next_url \in NextUrls : FollowNextUrl(next_url)


----------------------------------------------------------------------------
(* getSubject of src/src/main.ts, called under Promise.all *)

MaxSubjectCalls == 2
SubjectCalls == 1..MaxSubjectCalls

\* A call of getSubject: where it is, its id and the value it resolved
\* with
NoSubjectCall == [pc |-> "none", id |-> 1, value |-> NullValue]

\* The calls; per id the times the initializer ran (each is one request
\* `subjects/${id}`) and the times the file of the key was written
NoSub == [calls |-> [i \in SubjectCalls |-> NoSubjectCall],
          inits |-> [id \in Ids |-> 0], writes |-> [id \in Ids |-> 0]]

\* `if (currentCacheValue != undefined)`: null is == undefined
CurrentCacheValueSet(c, key) == key \in DOMAIN c /\ c[key] # NullValue

\* getSubject(id) up to the first await of getOrInitializeCache: the
\* cached value is returned, or the initializer is called and awaited
CallGetSubject(i, id) ==
    /\ pc = "idle"
    /\ draft = "main"
    /\ sub.calls[i].pc = "none"
    /\ IF CurrentCacheValueSet(cache, SubjectKey(id))
       THEN sub' = [sub EXCEPT !.calls[i] =
                       [pc |-> "resolved", id |-> id,
                        value |-> cache[SubjectKey(id)]]]
       ELSE sub' = [sub EXCEPT !.calls[i] =
                       [pc |-> "initializer", id |-> id, value |-> NullValue],
                       !.inits[id] = sub.inits[id] + 1]
    /\ UNCHANGED <<draft, cache, files, pc, call, last, prev, store, gets,
                   follow>>

\* What getWaniKani(`subjects/${id}`, {}) resolves with: the subject of
\* that id as the remote has it, or null
Initialized(id) ==
    {SubjectObj(r) : r \in {x \in Rec : x.id = id}} \cup {NullValue}

\* The initializer of a call resolved: setCache(key, initialValue), and
\* the call resolves with initialValue
InitializerResolves(i) ==
    /\ sub.calls[i].pc = "initializer"
    /\ \E initialValue \in Initialized(sub.calls[i].id) :
          LET id == sub.calls[i].id
              s == SetCache(cache, files, SubjectKey(id), initialValue)
          IN  /\ cache' = s.cache
              /\ files' = s.files
              /\ sub' = [sub EXCEPT !.calls[i].pc = "resolved",
                            !.calls[i].value = initialValue,
                            !.writes[id] = sub.writes[id]
                                + (IF s.wrote THEN 1 ELSE 0)]
    /\ UNCHANGED <<draft, pc, call, last, prev, store, gets, follow>>

\* The initializer of a call rejected: so does the call, with no setCache
InitializerRejects(i) ==
    /\ sub.calls[i].pc = "initializer"
    /\ sub' = [sub EXCEPT !.calls[i].pc = "rejected"]
    /\ UNCHANGED <<draft, cache, files, pc, call, last, prev, store, gets,
                   follow>>

----------------------------------------------------------------------------
(* The process *)

NoStore == [calls |-> 0, op |-> "none", key |-> "",
            json |-> Stringify(EmptyObj), wrote |-> FALSE, repeated |-> FALSE,
            wroteBefore |-> FALSE, present |-> FALSE, invoked |-> FALSE,
            value |-> EmptyObj]

\* The text of a file that cannot be read or that JSON.parse rejects
Garbled == -3
Unreadable == Obj(Garbled, <<>>)
Readable(f) == \A key \in DOMAIN f : f[key] # Unreadable

\* The directory cache/ as a new process finds it: as the last process
\* left it, or with one of its files damaged since
FoundAtStart(f) ==
    IF Readable(f)
    THEN {f} \cup {Put(f, key, Unreadable) : key \in DOMAIN f}
    ELSE {f}

\* A main that catches the rejection of loadCache and goes on
AfterLoadCacheCaught(f) == "idle"

\* `await loadCache()` of main: readFile or JSON.parse throws on a damaged
\* file, loadCache rejects, and so does main
AfterLoadCache(f) == IF Readable(f) THEN "idle" ELSE "aborted"

\* The process ends and a new one starts: main awaits loadCache first.
\* When loadCache throws, the files it read before are in the cache.
Restart ==
    /\ pc \in {"idle", "aborted", "crashed"}
    /\ \E f \in FoundAtStart(files) :
          /\ files' = f
          /\ pc' = AfterLoadCache(f)
          /\ IF Readable(f)
             THEN /\ cache' = LoadCache(f)
                  /\ last' = [NoLast EXCEPT !.n = last.n]
             ELSE /\ \E S \in SUBSET {key \in DOMAIN f : f[key] # Unreadable} :
                       cache' = LoadCache([key \in S |-> f[key]])
                  /\ last' = [NoLast EXCEPT !.n = last.n,
                                            !.outcome = "loadFailed"]
    /\ prev' = NoPrev
    /\ call' = NoCall
    /\ UNCHANGED <<draft, store, gets, follow, sub>>

Init ==
    /\ draft \in {"main", "part_000"}
    /\ cache = <<>>
    /\ files = <<>>
    /\ pc = "idle"
    /\ call = NoCall
    /\ last = NoLast
    /\ prev = NoPrev
    /\ store = NoStore
    /\ gets = NoGets
    /\ follow = NoFollow
    /\ sub = NoSub

Next ==
    \/ GetReviewStatistics
    \/ \E subjectIds \in SubjectIdLists : GetAssignments(subjectIds)
    \/ \E subjectIds \in SubjectIdLists, getAllAssignments \in BOOLEAN :
          GetAssignments000(subjectIds, getAllAssignments)
    \/ FirstRejected
    \/ FirstUnchanged
    \/ FirstPage
    \/ NextRejected
    \/ NextUnchanged
    \/ NextPage
    \/ CrashBetweenSetCaches
    \/ Return
    \/ Restart

Spec == Init /\ [][Next]_vars

\* Every request gets an answer: axios.get settles, and getWaniKani with it
Answered ==
    \/ FirstRejected
    \/ FirstUnchanged
    \/ FirstPage
    \/ NextRejected
    \/ NextUnchanged
    \/ NextPage

\* The first sync of a process, up to its return: a sync of either draft
\* is called and its requests are answered
NextAnswered ==
    \/ GetReviewStatistics
    \/ \E subjectIds \in SubjectIdLists : GetAssignments(subjectIds)
    \/ \E subjectIds \in SubjectIdLists, getAllAssignments \in BOOLEAN :
          GetAssignments000(subjectIds, getAllAssignments)
    \/ Answered

SpecAnswered == Init /\ [][NextAnswered]_vars /\ WF_vars(Answered)

----------------------------------------------------------------------------
(* The cache store on its own: setCache called directly *)

StoreKeys == {ReviewKeys.date, ReviewKeys.coll}

\* The values stored under a key: a date object (with no date property,
\* or an undefined, null or string date), or a collection that is empty
\* or holds one record under its id
StoreValues(key) ==
    IF key = ReviewKeys.date
    THEN {DateObj(d) : d \in DateVals}
    ELSE {EmptyObj} \cup {CollObj(Put(<<>>, r.id, r)) : r \in Rec}

\* await setCache(key, value); store keeps what this call and the call
\* before it did
StoreSetCache(key, value) ==
    /\ pc = "idle"
    /\ LET s == SetCache(cache, files, key, value)
           json == Stringify(value)
       IN  /\ cache' = s.cache
           /\ files' = s.files
           /\ store' = [NoStore EXCEPT
                        !.calls = Min({store.calls + 1, 2}),
                        !.op = "setCache", !.key = key,
                        !.json = json, !.wrote = s.wrote,
                        !.repeated = /\ store.op = "setCache"
                                     /\ store.key = key
                                     /\ store.json = json,
                        !.wroteBefore = store.wrote]
    /\ UNCHANGED <<draft, pc, call, last, prev, gets, follow, sub>>

\* await getOrInitializeCache(key, () => Promise.resolve(value)); store
\* keeps whether the key was present, whether the initializer ran, and
\* the value returned
StoreGetOrInitializeCache(key, value) ==
    /\ pc = "idle"
    /\ LET g == GetOrInitializeCache(cache, files, key, value)
       IN  /\ cache' = g.cache
           /\ files' = g.files
           /\ store' = [NoStore EXCEPT
                        !.calls = Min({store.calls + 1, 2}),
                        !.op = "getOrInitializeCache", !.key = key,
                        !.json = Stringify(value), !.wrote = g.wrote,
                        !.present = key \in DOMAIN cache,
                        !.invoked = g.invoked, !.value = g.value]
    /\ UNCHANGED <<draft, pc, call, last, prev, gets, follow, sub>>

NextStore ==
    \E key \in StoreKeys : \E value \in StoreValues(key) :
        \/ StoreSetCache(key, value)
        \/ StoreGetOrInitializeCache(key, value)

SpecStore == Init /\ [][NextStore]_vars

SpecFetch == Init /\ [][NextFetch]_vars

SpecFollow == Init /\ [][NextFollow]_vars

\* One process that is not ended from outside.  In src/src/main.ts main
\* calls one sync of a collection, and getSubject before it and after it;
\* in part_000 main calls getSubjects, and then getSubjects again or one
\* sync of a collection
NextSubjects ==
    \/ /\ last.op \notin {"getReviewStatistics", "getAssignments"}
       /\ draft = "part_000" => last.op = "getSubjects"
       /\ \/ GetReviewStatistics
          \/ \E subjectIds \in SubjectIdLists : GetAssignments(subjectIds)
          \/ \E subjectIds \in SubjectIdLists, getAllAssignments \in BOOLEAN :
                GetAssignments000(subjectIds, getAllAssignments)
    \/ \E ids \in SubjectIdArrays : GetSubjects(ids)
    \/ \E i \in SubjectCalls :
          \/ \E id \in Ids : CallGetSubject(i, id)
          \/ InitializerResolves(i)
          \/ InitializerRejects(i)
    \/ Answered
    \/ Return

SpecSubjects == Init /\ [][NextSubjects]_vars

----------------------------------------------------------------------------
(* Properties of a sync that has finished *)

SyncOk == pc = "done" /\ call.outcome = "ok" /\ call.reqs > 0

SyncRejected == pc = "done" /\ call.outcome = "rejected"

\* The file of a key holds the serialization of obj; a file that was never
\* written counts as holding the empty object
FileHolds(key, obj) ==
    IF key \in DOMAIN files THEN files[key] = Stringify(obj)
    ELSE Stringify(obj) = Stringify(EmptyObj)

\* The collection the in-memory cache held when the sync was called
CachedBefore ==
    IF call.keys.coll \in DOMAIN call.preCache
    THEN call.preCache[call.keys.coll].recs ELSE <<>>

\* The ids the caller gets records of
Wanted ==
    IF call.op = "getReviewStatistics" \/ call.getAllAssignments
    THEN Ids ELSE Range(call.subjectIds)

DeliveredIds == {call.result[i].id : i \in 1..Len(call.result)}

\* The record of id that comes last in the records delivered
LastDelivered(id) ==
    LET I == {i \in 1..Len(call.result) : call.result[i].id = id}
    IN  call.result[CHOOSE i \in I : \A j \in I : j <= i]

\* The ids on the pages served
PageIds ==
    UNION {{call.chain[j].data[i].id : i \in 1..Len(call.chain[j].data)} :
              j \in 1..Len(call.chain)}

\* A needed id is absent from the collection the sync read
IdMissing == ~EveryIdCached(call.subjectIds, CollObj(call.oldBefore))

----------------------------------------------------------------------------
(* C1 *)

\* C1: after a sync that received a real page set and returned, the file
\* of the collection key holds the serialization of the merged collection
\* and the file of the date key holds the new watermark.
PageSetSyncPersistsBoth ==
    SyncOk /\ call.pages =>
        /\ FileHolds(call.keys.coll, call.old)
        /\ FileHolds(call.keys.date, DateObj(call.dateLastUpdated))

----------------------------------------------------------------------------
(* C2 *)

\* C2: when a request of a sync fails the sync rejects, and the in-memory
\* cache and the cache files are as they were before the call.
FailedSyncLeavesStateAsBefore ==
    SyncRejected => cache = call.preCache /\ files = call.preFiles

\* A page request failed after page one brought records, in a sync that
\* holds the cached collection object itself
FailedMidPagination ==
    /\ SyncRejected
    /\ call.reqs >= 2
    /\ call.result # <<>>
    /\ call.aliased
    /\ Truthy(call.storedDate)

----------------------------------------------------------------------------
(* C3 *)

----------------------------------------------------------------------------
(* C4 *)

\* C4: when the conditional first request of a sync is answered
\* "unchanged", the cache and the files are as before the call, no file
\* is written, and the records returned are the records cached before the
\* call (for getAssignments, those of the ids asked for).
UnchangedSyncChangesNothing ==
    SyncOk /\ ~call.pages /\ Conditional(call.firstReq) =>
        /\ cache = call.preCache
        /\ files = call.preFiles
        /\ call.written = {}
        /\ Range(call.ret) =
              {CachedBefore[id] : id \in Wanted \cap DOMAIN CachedBefore}
        /\ Len(call.ret) = Cardinality(Wanted \cap DOMAIN CachedBefore)

\* A conditional request answered "unchanged" with records in the cache
UnchangedWithRecords ==
    /\ SyncOk
    /\ ~call.pages
    /\ Conditional(call.firstReq)
    /\ call.ret # <<>>
    /\ Cardinality(DOMAIN CachedBefore) = MaxId

----------------------------------------------------------------------------
(* C5 *)

\* C5: a sync of a remote that has not changed since the sync before it
\* leaves the collection as that sync left it and makes at most one
\* request.
SecondSyncOneRequest ==
    SyncOk /\ call.asBefore =>
        /\ cache = call.preCache
        /\ files = call.preFiles
        /\ call.reqs <= 1

\* C5 as amended: such a sync leaves the cache and the files as the sync
\* before left them; it makes one request when it is getReviewStatistics,
\* or getAssignments of src/src/main.ts with every id asked for cached.
SecondSyncSameCollection ==
    SyncOk /\ call.asBefore =>
        /\ cache = call.preCache
        /\ files = call.preFiles
        /\ (\/ call.op = "getReviewStatistics"
            \/ draft = "main" /\ ~IdMissing) => call.reqs = 1

\* The second sync was conditional and short-circuited
SecondSyncShortCircuits ==
    /\ SyncOk
    /\ call.asBefore
    /\ Conditional(call.firstReq)
    /\ call.reqs = 1
    /\ Len(prev.chain) = MaxPages
    /\ CachedBefore # <<>>

----------------------------------------------------------------------------
(* C6 *)

\* C6: a successful sync that found a watermark stored leaves a watermark
\* stored that is no earlier.
WatermarkNonDecreasing ==
    SyncOk /\ Truthy(call.storedDate) =>
        /\ call.keys.date \in DOMAIN cache
        /\ Truthy(ReadDate(cache[call.keys.date]))
        /\ ReadDate(cache[call.keys.date]) >= call.storedDate

----------------------------------------------------------------------------
(* C7 *)

\* C7: after a sync has merged its records, the lookup of a delivered id
\* gives the record delivered (the last one with that id), and the ids
\* not delivered have the record, or no record, they had before.
MergeReplacesById ==
    SyncOk /\ call.pages =>
        \A id \in Ids :
            IF id \in DeliveredIds
            THEN /\ call.keys.coll \in DOMAIN cache
                 /\ id \in DOMAIN cache[call.keys.coll].recs
                 /\ cache[call.keys.coll].recs[id] = LastDelivered(id)
            ELSE /\ id \in DOMAIN call.old.recs <=> id \in DOMAIN call.oldBefore
                 /\ id \in DOMAIN call.oldBefore =>
                        /\ call.old.recs[id] = call.oldBefore[id]
                        /\ cache[call.keys.coll].recs[id] = call.oldBefore[id]

\* A record replaced a different record of its id, next to a record of
\* an id that was not delivered
MergeReplacedOne ==
    /\ SyncOk
    /\ call.pages
    /\ \E id \in DeliveredIds \cap DOMAIN call.oldBefore :
          call.oldBefore[id] # LastDelivered(id)
    /\ (DOMAIN call.oldBefore) \ DeliveredIds # {}

----------------------------------------------------------------------------
(* C8 *)

\* C8: from an empty cache, a sync served a chain of k pages that ends
\* with a page without next_url makes k requests and leaves exactly the
\* ids on those pages in the collection.
ChainOfPagesFetched ==
    /\ SyncOk
    /\ call.pages
    /\ call.preCache = <<>>
    /\ call.preFiles = <<>>
    /\ call.chain[Len(call.chain)].next_url = Null
    =>
    /\ call.reqs = Len(call.chain)
    /\ DOMAIN call.old.recs = PageIds
    /\ PageIds # {} =>
          /\ call.keys.coll \in DOMAIN cache
          /\ DOMAIN cache[call.keys.coll].recs = PageIds

\* Two pages with a record each, of different ids
TwoPagesTwoIds ==
    /\ SyncOk
    /\ call.preCache = <<>>
    /\ call.preFiles = <<>>
    /\ Len(call.chain) = MaxPages
    /\ call.chain[Len(call.chain)].next_url = Null
    /\ Cardinality(PageIds) = MaxPages
    /\ call.reqs = MaxPages

----------------------------------------------------------------------------
(* C9 *)

----------------------------------------------------------------------------
(* C13 *)

\* C13: when a watermark is stored, the first request of a sync has
\* updated_after equal to the watermark and If-Modified-Since equal to it.
WatermarkGivesConditionalDelta ==
    call.reqs > 0 /\ Truthy(call.storedDate) =>
        /\ call.firstReq.updated_after = call.storedDate
        /\ call.firstReq.ifModifiedSince = call.storedDate

\* C13 as amended: that is so of getReviewStatistics, and of
\* getAssignments of src/src/main.ts when every id asked for is cached;
\* getAssignments of src/unnamed/part_000 sends updated_after equal to the
\* watermark without the header, and getAssignments of src/src/main.ts
\* with an id missing sends neither.
WatermarkGivesDeltaPerSync ==
    call.reqs > 0 /\ Truthy(call.storedDate) =>
        LET r == call.firstReq
        IN  IF call.op = "getReviewStatistics" \/ (draft = "main" /\ ~IdMissing)
            THEN r.updated_after = call.storedDate
                 /\ r.ifModifiedSince = call.storedDate
            ELSE IF draft = "part_000"
            THEN r.updated_after = call.storedDate
                 /\ r.ifModifiedSince = Undefined
            ELSE r.updated_after = NoProp /\ r.ifModifiedSince = Undefined

\* getReviewStatistics has sent its delta request
ReviewDeltaSent ==
    /\ pc = "first"
    /\ call.op = "getReviewStatistics"
    /\ call.storedDate = MaxTime
    /\ call.firstReq.ifModifiedSince = MaxTime
    /\ call.firstReq.updated_after = MaxTime

----------------------------------------------------------------------------
(* C14 *)

\* C14: when no watermark is stored, the first request of a sync has no
\* updated_after, no id filter and no If-Modified-Since.
NoWatermarkGivesUnfilteredFetch ==
    call.reqs > 0 /\ ~Truthy(call.storedDate) =>
        /\ call.firstReq.updated_after = NoProp
        /\ ~call.firstReq.has_subject_ids
        /\ ~Conditional(call.firstReq)

\* C14 as amended: such a request has no updated_after and no
\* If-Modified-Since; it has no id filter either, except in getAssignments
\* of src/src/main.ts, whose request always has subject_ids: the ids asked
\* for and the ids cached, each once.
NoWatermarkGivesFullFetch ==
    call.reqs > 0 /\ ~Truthy(call.storedDate) =>
        LET r == call.firstReq
        IN  /\ r.updated_after = NoProp
            /\ ~Conditional(r)
            /\ r.has_subject_ids
                  <=> (call.op = "getAssignments" /\ draft = "main")
            /\ r.has_subject_ids =>
                  /\ Range(r.subject_ids) =
                        Range(call.subjectIds) \cup DOMAIN call.oldBefore
                  /\ Len(r.subject_ids) = Cardinality(Range(r.subject_ids))
            /\ ~r.has_subject_ids => r.subject_ids = <<>>

\* getAssignments of src/src/main.ts has sent its request for several
\* ids with no watermark stored
FullFetchWithoutWatermark ==
    /\ pc = "first"
    /\ draft = "main"
    /\ call.op = "getAssignments"
    /\ ~Truthy(call.storedDate)
    /\ call.firstReq.has_subject_ids
    /\ Len(call.firstReq.subject_ids) = MaxId

----------------------------------------------------------------------------
(* C15 *)

\* C15: getOrInitializeCache returns the current value without running
\* the initializer when the key is present; when the key is absent it runs
\* the initializer, returns the default, and leaves the default under the
\* key in the in-memory cache and in the file of the key.
InitializeOnMissPersists ==
    store.op = "getOrInitializeCache" =>
        /\ store.key \in DOMAIN cache
        /\ store.key \in DOMAIN files
        /\ IF store.present
           THEN /\ ~store.invoked
                /\ ~store.wrote
                /\ store.value = cache[store.key]
           ELSE /\ store.invoked
                /\ Stringify(store.value) = store.json
                /\ Stringify(cache[store.key]) = store.json
                /\ files[store.key] = store.json

----------------------------------------------------------------------------
(* C16 *)

\* C16: whenever no setCache is in progress, the keys of the in-memory
\* cache are the keys that have a file, and the file of every key holds
\* the serialization of the in-memory value.
CacheAgreesWithFiles ==
    /\ DOMAIN cache = DOMAIN files
    /\ \A key \in DOMAIN cache : files[key] = Stringify(cache[key])

----------------------------------------------------------------------------
(* C17 *)

\* C17: a restart gives every key of the in-memory cache a value equal,
\* as JSON, to the value it had in memory just before the restart.
RestartKeepsValues ==
    [][Restart /\ files' = files /\ Readable(files) =>
          \A key \in DOMAIN cache :
              /\ key \in DOMAIN cache'
              /\ Stringify(cache'[key]) = Stringify(cache[key])]_vars

----------------------------------------------------------------------------
(* C20 *)

\* C20: a sync never replaces a stored record with one whose
\* data_updated_at is older.
RecordTimestampsNeverGoBack ==
    SyncOk =>
        \A id \in DOMAIN call.oldBefore :
            /\ id \in DOMAIN call.old.recs
            /\ call.old.recs[id].data_updated_at
                  >= call.oldBefore[id].data_updated_at

----------------------------------------------------------------------------
(* C18 *)

\* C18: after a sync has rejected, the run goes on: main is not aborted
\* and can attempt the syncs that remain.
RunContinuesAfterFailedSync ==
    last.outcome = "rejected" => pc # "aborted"

----------------------------------------------------------------------------
(* C19 *)

\* C19: when a cache file is unreadable at load time, loadCache rejects
\* and main with it: from then on the run starts no sync, sends no
\* request and writes no file; the next step is a new start.
FailedStartupDoesNothing ==
    [][last.outcome = "loadFailed" =>
          /\ pc = "aborted"
          /\ call' = NoCall
          /\ files' = files
          /\ pc' \in {"idle", "aborted"}]_vars

\* loadCache threw on a damaged file after it had read another
StartupFailed ==
    /\ last.outcome = "loadFailed"
    /\ pc = "aborted"
    /\ ~Readable(files)
    /\ cache # <<>>

----------------------------------------------------------------------------
(* C11 *)

GetsStarted ==
    {i \in Calls : gets.calls[i].pc \in {"get", "resolved", "rejected"}}

\* C11: a GET of a call is started only after the removeTokens callback
\* of that call has run, every GET has taken exactly one token, and there
\* is no GET but those of the calls of getWaniKani.
EveryGetTookAToken ==
    /\ \A i \in GetsStarted : gets.calls[i].token
    /\ gets.started = gets.tokens
    /\ gets.started = Cardinality(GetsStarted)

\* Two calls at once: one has its GET in flight, the other waits for the
\* limiter
OneGetOneWaiting ==
    /\ \E i \in Calls : gets.calls[i].pc = "get"
    /\ \E i \in Calls : gets.calls[i].pc = "removeTokens"
    /\ gets.tokens = 1

----------------------------------------------------------------------------
(* C12 *)

----------------------------------------------------------------------------
(* C21 *)

\* The record keys of the collection a cache entry or a cache file holds
CachedIds(c, key) == IF key \in DOMAIN c THEN DOMAIN c[key].recs ELSE {}

\* C21: no step of a sync (started, answered with pages, answered
\* "unchanged", failed or returned) removes a key from the cache object or
\* a file from the cache directory, and none removes a record id from a
\* cached collection or from the file of a collection.
SyncsRemoveNothing ==
    [][Restart \/
       /\ \A key \in DOMAIN cache :
             /\ key \in DOMAIN cache'
             /\ CachedIds(cache, key) \subseteq CachedIds(cache', key)
       /\ \A key \in DOMAIN files :
             /\ key \in DOMAIN files'
             /\ CachedIds(files, key) \subseteq CachedIds(files', key)]_vars

\* A sync found a record cached and was given a page set without its id
MergedPagesWithoutCachedId ==
    /\ SyncOk
    /\ call.pages
    /\ call.aliased
    /\ \E id \in DOMAIN call.oldBefore : id \notin DeliveredIds
    /\ DeliveredIds # {}

----------------------------------------------------------------------------
(* C22 *)

\* The array returned holds records of the ids in S only, and for every id
\* of S the merged collection has, its record of that id, once
ReturnsViewOf(S) ==
    /\ \A i \in 1..Len(call.ret) :
          /\ call.ret[i].id \in S
          /\ call.ret[i].id \in DOMAIN call.old.recs
          /\ call.ret[i] = call.old.recs[call.ret[i].id]
    /\ \A id \in S \cap DOMAIN call.old.recs :
          Cardinality({i \in 1..Len(call.ret) : call.ret[i].id = id}) = 1

----------------------------------------------------------------------------
(* C23 *)

\* The If-Modified-Since header getWaniKani sends with a request
HeaderOf(req) == Header(req.ifModifiedSince)

\* C23: a page request of unwrapCollection carries no If-Modified-Since
\* header; the first request of a sync carries one exactly when the sync
\* passed ifModifiedSince to getWaniKani, and then it is the truthy date
\* the sync asks a delta from.
OnlyFirstRequestConditional ==
    /\ pc = "page" => HeaderOf(call.req) = NoProp
    /\ pc = "first" =>
          IF call.req.ifModifiedSince = Undefined
          THEN HeaderOf(call.req) = NoProp
          ELSE /\ HeaderOf(call.req) = call.dateLastUpdated
               /\ Truthy(call.dateLastUpdated)
               /\ call.req.updated_after = call.dateLastUpdated

\* A page request is out in a sync whose first request was conditional
PageAfterConditionalFirst ==
    /\ pc = "page"
    /\ HeaderOf(call.firstReq) \in Times
    /\ call.req.link # Null

----------------------------------------------------------------------------
(* C24 *)

\* C24: a sync has made one request for each page it received and one for
\* the page it waits for; when a request fails the sync is rejected with
\* no request out and none made after the one that failed.
FailedRequestNotRetried ==
    /\ pc \in {"first", "page"} =>
          /\ call.req # NoRequest
          /\ call.reqs = Len(call.chain) + 1
    /\ SyncRejected =>
          /\ call.req = NoRequest
          /\ call.reqs = Len(call.chain) + 1

\* The request for page two failed and the sync rejected
PageRequestFailedOnce ==
    /\ SyncRejected
    /\ Len(call.chain) = 1
    /\ call.reqs = 2

----------------------------------------------------------------------------
(* C25 *)

\* A step that calls a sync: the sync goes to its first request, or
\* returns at once with no request made
SyncStarts == pc' = "first" \/ (pc' = "done" /\ call'.reqs = 0)

\* A sync is in flight: called and not yet returned to main
SyncInFlight == pc \in {"first", "page", "done"}

\* C25: a sync is called only when no sync is in flight, the one before
\* having returned to main; main is at a call only with no sync's locals
\* alive.
OneSyncAtATime ==
    [][/\ SyncStarts => ~SyncInFlight /\ call = NoCall
       /\ SyncInFlight => call.op # "none"
       /\ pc = "idle" => call = NoCall]_vars

\* The second sync of a run waits for its first page, the first sync
\* having returned
SecondSyncInFlight ==
    /\ pc = "first"
    /\ last.n = 1
    /\ last.outcome = "ok"
    /\ last.op # call.op

----------------------------------------------------------------------------
(* C26 *)

\* The sync in hand wrote the file of its date, and what it wrote is
\* data_updated_at of its page one
AdvancedWatermarkFile ==
    /\ pc \in {"done", "crashed"}
    /\ call.outcome \in {"ok", "crashed"}
    /\ call.pages
    /\ call.keys.date \in call.written
    /\ FileHolds(call.keys.date, DateObj(call.pageOneDate))

\* The records the file of a collection key holds
FileRecs(key) == IF key \in DOMAIN files THEN files[key].recs ELSE <<>>

\* C26: when the file of the date holds the timestamp a sync advanced it
\* to, at the return of that sync or at the end of the process between
\* its two setCache calls, the file of the collection holds every record
\* that sync was given.
WatermarkFileNotAhead ==
    AdvancedWatermarkFile =>
        \A id \in DeliveredIds :
            /\ id \in DOMAIN FileRecs(call.keys.coll)
            /\ FileRecs(call.keys.coll)[id] = LastDelivered(id)

----------------------------------------------------------------------------
(* C27 *)

\* The records of the pages of a chain, in page order
RECURSIVE ChainData(_)
ChainData(chain) ==
    IF chain = <<>> THEN <<>>
    ELSE ChainData(SubSeq(chain, 1, Len(chain) - 1))
             \o chain[Len(chain)].data

\* C27: whenever unwrapCollection has returned and the sync merged what it
\* returned, the pages fetched end with a page without next_url and the
\* sequence returned holds the records of all of them in page order.
UnwrapReturnsWholeChain ==
    SyncOk /\ call.pages =>
        /\ call.chain # <<>>
        /\ call.chain[Len(call.chain)].next_url = Null
        /\ call.result = ChainData(call.chain)

----------------------------------------------------------------------------
(* C28 *)

\* C28: after a sync that was given a page set has returned, the date
\* entry of the cache and its file hold data_updated_at of the first page
\* of that sync, whatever data_updated_at the later pages had.
WatermarkIsDateOfPageOne ==
    SyncOk /\ call.pages =>
        /\ call.keys.date \in DOMAIN cache
        /\ cache[call.keys.date].date = call.chain[1].data_updated_at
        /\ FileHolds(call.keys.date,
                     DateObj(call.chain[1].data_updated_at))

\* The second page of a sync reported a later data_updated_at than the
\* first
LaterPageHasLaterDate ==
    /\ SyncOk
    /\ call.pages
    /\ Len(call.chain) = 2
    /\ call.chain[2].data_updated_at > call.chain[1].data_updated_at

----------------------------------------------------------------------------
(* C29 *)

\* C29: with every request answered, an unwrapCollection that waits for a
\* page comes to an end; while it waits, the last page it has seen has a
\* next_url and the request out is for that link, the only request made
\* since that page came; and once it has returned after a page without
\* next_url, it has made one request for each page and none is out.
PaginationTerminates ==
    /\ (pc = "page") ~> (pc # "page")
    /\ [](pc = "page" =>
            /\ call.chain[Len(call.chain)].next_url # Null
            /\ call.req = PageRequest(call.chain[Len(call.chain)].next_url)
            /\ call.reqs = Len(call.chain) + 1)
    /\ [](SyncOk /\ call.pages
             /\ call.chain[Len(call.chain)].next_url = Null =>
            /\ call.reqs = Len(call.chain)
            /\ call.req = NoRequest
            /\ \A i \in 1..(Len(call.chain) - 1) :
                  call.chain[i].next_url # Null)

\* unwrapCollection returned after the last page of a chain of MaxPages
LastPageOfChainSeen ==
    /\ SyncOk
    /\ call.pages
    /\ Len(call.chain) = MaxPages
    /\ call.chain[MaxPages].next_url = Null
    /\ call.reqs = MaxPages
    /\ call.op = "getAssignments"

----------------------------------------------------------------------------
(* C30 *)

\* C30: the URL unwrapCollection asks for is the next_url of the page it
\* holds, whatever next_url the remote supplied.
NextUrlFollowedVerbatim ==
    follow.called => follow.url = follow.next_url

----------------------------------------------------------------------------
(* C31 *)

\* The keys a step may write: those of the function that takes the step
SubjectKeysOf == {SubjectKeyNames[id] : id \in Ids}
KeysOf(op) ==
    CASE op = "getReviewStatistics" -> {ReviewKeys.date, ReviewKeys.coll}
      [] op = "getAssignments" -> {AssignmentKeys.date, AssignmentKeys.coll}
      [] op = "getSubjects" -> SubjectKeysOf
      [] OTHER -> {}

\* The entry of a key in the cache object or in the cache directory
EntryOf(c, key) == IF key \in DOMAIN c THEN <<c[key]>> ELSE <<>>

\* C31: a step of getReviewStatistics changes no cache entry and no file
\* but those of reviewStatsDate and reviewStats, a step of getAssignments
\* none but those of AssignmentsDate and Assignments, and a step of
\* getSubjects or getSubject none but those of the subject-<id> keys.
SyncsWriteOwnKeysOnly ==
    [][LET op == IF call.op # "none" THEN call.op ELSE call'.op
           owned == IF sub' # sub THEN SubjectKeysOf ELSE KeysOf(op)
       IN  \A key \in DOMAIN cache \cup DOMAIN cache'
                        \cup DOMAIN files \cup DOMAIN files' :
               \/ key \in owned
               \/ /\ EntryOf(cache', key) = EntryOf(cache, key)
                  /\ EntryOf(files', key) = EntryOf(files, key)]_vars

\* A sync of a collection has written both its keys in a process that
\* had a subject cached
WroteBesideOtherKeys ==
    /\ SyncOk
    /\ call.op \in {"getReviewStatistics", "getAssignments"}
    /\ call.written = {call.keys.date, call.keys.coll}
    /\ \E key \in SubjectKeysOf :
          key \in DOMAIN call.preFiles /\ key \in DOMAIN call.preCache

----------------------------------------------------------------------------
(* C32 *)

\* C32: after setCache(key, value) the cache holds under key a value whose
\* serialization is that of value, whatever the key held before and
\* whatever the value.
LastWriteWins ==
    store.op = "setCache" =>
        /\ store.key \in DOMAIN cache
        /\ Stringify(cache[store.key]) = store.json

----------------------------------------------------------------------------
(* C33 *)

\* C33: getAssignments called with no ids, and without getAllAssignments,
\* returns an empty array having made no request, taken no token and
\* changed no cache entry and no cache file.
EmptyIdsDoNothing ==
    /\ pc = "done"
    /\ call.op = "getAssignments"
    /\ call.subjectIds = <<>>
    /\ ~call.getAllAssignments
    =>
    /\ call.outcome = "ok"
    /\ call.ret = <<>>
    /\ call.reqs = 0
    /\ call.firstReq = NoRequest
    /\ gets = NoGets
    /\ call.written = {}
    /\ cache = call.preCache
    /\ files = call.preFiles

\* getAssignments([]) has returned in a process whose cache holds a
\* watermark and records of assignments
EmptyIdsWithCachedAssignments ==
    /\ pc = "done"
    /\ call.op = "getAssignments"
    /\ call.subjectIds = <<>>
    /\ ~call.getAllAssignments
    /\ AssignmentKeys.coll \in DOMAIN cache
    /\ AssignmentKeys.date \in DOMAIN files
    /\ Truthy(ReadDate(cache[AssignmentKeys.date]))

----------------------------------------------------------------------------
(* C34 *)

\* the ids whose subject entry the cache c holds
CachedSubjectIds(c) ==
    {id \in Ids : SubjectKey(id) \in DOMAIN c /\ c[SubjectKey(id)] # NullValue}

\* C34: getSubjects makes no request when every id it is given is cached;
\* otherwise it makes one fetch of "subjects" whose ids parameter holds
\* exactly the ids given that are not cached, followed at most by the
\* pages of that fetch: a cached id is never asked for again.
SubjectsFetchedOncePerId ==
    call.op = "getSubjects" =>
        LET wanted == Range(call.subjectIds) \ CachedSubjectIds(call.preCache)
        IN  /\ wanted = {} => call.reqs = 0 /\ call.firstReq = NoRequest
            /\ wanted # {} =>
                   /\ call.reqs >= 1
                   /\ call.firstReq.path = "subjects"
                   /\ call.firstReq.has_subject_ids
                   /\ Range(call.firstReq.subject_ids) = wanted
                   /\ pc = "page" =>
                          /\ call.req.path = ""
                          /\ call.req.link # Null
                          /\ ~call.req.has_subject_ids

\* getSubjects awaits a fetch for ids of which one is cached and one is not
SubjectsFetchOfUncachedOnly ==
    /\ call.op = "getSubjects"
    /\ pc = "first"
    /\ Range(call.subjectIds) \cap CachedSubjectIds(call.preCache) # {}
    /\ Range(call.subjectIds) \ CachedSubjectIds(call.preCache) # {}

\* getSubjects has returned, having made no request, subjects that were
\* all cached
SubjectsAllCached ==
    /\ call.op = "getSubjects"
    /\ pc = "done"
    /\ call.subjectIds # <<>>
    /\ call.reqs = 0

----------------------------------------------------------------------------
(* C35 *)

\* C35: when getSubjects(ids) returns, its result is as long as ids and its
\* i-th element is the subject record of id ids[i]: no element is null,
\* whichever of the ids asked for the server returned.
SubjectsReturnedForEveryId ==
    /\ pc = "done"
    /\ call.op = "getSubjects"
    /\ call.outcome = "ok"
    =>
    /\ Len(call.ret) = Len(call.subjectIds)
    /\ \A i \in 1..Len(call.subjectIds) :
          /\ call.ret[i] # NullValue
          /\ \E r \in Rec : r.id = call.subjectIds[i] /\ call.ret[i] = SubjectObj(r)

----------------------------------------------------------------------------
(* C36 *)

\* C36: a getSubjects whose first request or whose request for a later
\* page fails rejects, and has added no subject entry to the cache or to
\* the files.
FailedSubjectsStoreNothing ==
    /\ [](pc = "done" /\ call.op = "getSubjects" /\ call.outcome = "rejected"
            => /\ cache = call.preCache
               /\ files = call.preFiles
               /\ call.written = {})
    /\ [][call'.op = "getSubjects" /\ call'.outcome = "rejected"
            /\ call.outcome # "rejected"
            => /\ pc \in {"first", "page"}
               /\ cache' = cache
               /\ files' = files]_vars

\* getSubjects has rejected at the request for a second page, after a
\* first page that carried a subject it had asked for
SubjectsFailedAfterFirstPage ==
    /\ pc = "done"
    /\ call.op = "getSubjects"
    /\ call.outcome = "rejected"
    /\ call.reqs = 2
    /\ call.result # <<>>
    /\ call.result[1].id \in Range(call.subjectIds)

----------------------------------------------------------------------------
(* C37 *)

----------------------------------------------------------------------------
(* C38 *)

----------------------------------------------------------------------------
(* C39 *)

\* C39: loadCache has completed before any sync starts: the first sync of
\* a process starts, looks up the cache and sends its request only when
\* loadCache has resolved and every cache file has been read into the
\* cache.
LoadCompletesBeforeSyncs ==
    [][call.op = "none" /\ call'.op # "none" /\ last.op = "none"
          => /\ pc = "idle"
             /\ last.outcome # "loadFailed"
             /\ \A key \in DOMAIN files :
                   /\ key \in DOMAIN cache
                   /\ cache[key] = Parse(files[key])]_vars

\* The first sync of a restarted process awaits its first request, the
\* process having found cache files at its start
FirstSyncAfterLoad ==
    /\ pc = "first"
    /\ call.op \in {"getReviewStatistics", "getAssignments"}
    /\ last.op = "none"
    /\ last.n > 0
    /\ call.preFiles # <<>>
    /\ call.keys.coll \in DOMAIN call.preFiles

----------------------------------------------------------------------------
(* C40 *)

\* C40: the subject_ids that getAssignments of main.ts sends with its
\* request, a delta or a full fetch alike, are the ids it was given
\* together with every id of the cached collection, each id once.
AllowListIsUnionOfGivenAndCached ==
    /\ draft = "main"
    /\ call.op = "getAssignments"
    /\ call.reqs >= 1
    =>
    /\ call.firstReq.has_subject_ids
    /\ Range(call.firstReq.subject_ids)
          = Range(call.subjectIds) \cup DOMAIN call.oldBefore
    /\ \A i, j \in 1..Len(call.firstReq.subject_ids) :
          call.firstReq.subject_ids[i] = call.firstReq.subject_ids[j] => i = j

\* A delta is asked of getAssignments for an id that is cached, the
\* cached collection holding another id as well
DeltaForGivenAndCachedIds ==
    /\ draft = "main"
    /\ pc = "first"
    /\ call.op = "getAssignments"
    /\ call.firstReq.updated_after # NoProp
    /\ Range(call.subjectIds) \cap DOMAIN call.oldBefore # {}
    /\ DOMAIN call.oldBefore \ Range(call.subjectIds) # {}

\* A full fetch is asked of getAssignments for an id that is not cached,
\* the cached collection holding another id
FullFetchForGivenAndCachedIds ==
    /\ draft = "main"
    /\ pc = "first"
    /\ call.op = "getAssignments"
    /\ call.firstReq.updated_after = NoProp
    /\ Range(call.subjectIds) \ DOMAIN call.oldBefore # {}
    /\ DOMAIN call.oldBefore \ Range(call.subjectIds) # {}

====
